---------------------------- MODULE Spec2Model ----------------------------
(***************************************************************************)
(* rust-handlers, system.rs: the schema model (SystemInfo / HandlerInfo /  *)
(* HandlerFnInfo / HandlerFnArg), the synthesis of the declarations        *)
(* (generate_ast, generate_object_impl), and the behaviour of the          *)
(* synthesized registry (new / add / iter / iter_mut / one dispatch method *)
(* per handler function), obtained by executing the synthesized method     *)
(* bodies.                                                                 *)
(*                                                                         *)
(* Identifiers are strings.  A synthesized declaration is a record that    *)
(* keeps what the syntax tree states: kind, name, members, and for a       *)
(* method its statements.                                                  *)
(***************************************************************************)
EXTENDS Integers, Sequences, FiniteSets, TLC

VARIABLES
    sys,        \* the SystemInfo (name, reqs, handlers)
    phase,      \* "build" while the schema is accumulated, "generated" after generate_ast
    ast,        \* the items generate_ast returned (<<>> before)
    objimpl,    \* the last generate_object_impl call: [thing, impls, item] (or NoImpl)
    self,       \* the registry value: field name -> Vec (objects, idxs_H ...)
    panicked,   \* the last dispatch ended in unwrap()'s panic
    ub,         \* get_unchecked_mut was handed an index outside objects
    calls,      \* the invocations the last dispatch made, in order
    added,      \* history: the objects handed to add, in call order, as they answered then
    last,       \* the last registry operation called: [op, method, args]; args of a
                \* dispatch are the caller's arguments, of iter() the objects it yielded
    manual      \* what the caller did by hand to this registry: adds of objects with a
                \* hand-written Object impl, boxes swapped or assigned through views

vars == <<sys, phase, ast, objimpl, self, panicked, ub, calls, added,
          last, manual>>

synthVars == <<sys, phase, ast, objimpl>>
runVars == <<self, panicked, ub, calls, added, last, manual>>

---------------------------------------------------------------------------
(* Bounds *)

MaxHandlers == 2     \* handlers in one SystemInfo
MaxFns == 2          \* functions in one SystemInfo (over all its handlers)
MaxReqs == 1         \* requirements in one SystemInfo
MaxObjects == 3      \* add calls on one registry
MaxManual == 1       \* objects with a hand-written Object impl added to one registry,
                     \* and boxes swapped or assigned through iter_mut's views

SystemName == "System"
HandlerNames == {"Drawable", "Updatable"}
ReqNames == {"Debug"}
ThingNames == {"Sprite"}
\* the handler lists handed to generate_object_impl
ImplChoices ==
    { <<>>, <<"Drawable">>, <<"Updatable">>, <<"Other">>, <<"Drawable", "Updatable">>,
      <<"Other", "Updatable">>, <<"Drawable", "Drawable">> }
ArgValues == {1, 2}

---------------------------------------------------------------------------
(* Sequence helpers *)

Range(s) == {s[i] : i \in 1..Len(s)}

RECURSIVE Concat(_)
Concat(ss) == IF ss = <<>> THEN <<>> ELSE Head(ss) \o Concat(Tail(ss))

SeqsUpTo(S, n) == UNION {[1..k -> S] : k \in 0..n}

---------------------------------------------------------------------------
(* util: identifier helpers *)

ident_append(a, b) == a \o b
as_ident(name) == "as_" \o name
as_mut_ident(name) == "as_" \o name \o "_mut"
idxs_ident(name) == "idxs_" \o name

---------------------------------------------------------------------------
(* Schema model *)

HandlerFnArg_new(name, ty) == [name |-> name, ty |-> ty]

HandlerFnInfo_new(source, dest, args) ==
    [source_name |-> source, dest_name |-> dest, args |-> args]

HandlerInfo_new(name) == [name |-> name, fns |-> <<>>]

add_function(handler, function) ==
    [handler EXCEPT !.fns = Append(@, function)]

SystemInfo_new(name) == [name |-> name, reqs |-> <<>>, handlers |-> <<>>]

add_requirement(s, req) == [s EXCEPT !.reqs = Append(@, req)]

add_handler(s, handler) == [s EXCEPT !.handlers = Append(@, handler)]

object_name(s) == ident_append(s.name, "Object")

---------------------------------------------------------------------------
(* Synthesized declarations.  One record shape per syntactic class:        *)
(*   statement  [op, field, accessor, call, args]                          *)
(*   method     [name, recv, args, ret, stmts]   (recv: "static", "&self", *)
(*              "&mut self"; stmts is <<>> for a trait's declaration)      *)
(*   item       [kind, name, supers, fields, methods]                      *)

Stmt(op, field, accessor, call, args) ==
    [op |-> op, field |-> field, accessor |-> accessor, call |-> call, args |-> args]

Method(name, recv, args, ret, stmts) ==
    [name |-> name, recv |-> recv, args |-> args, ret |-> ret, stmts |-> stmts]

Item(kind, name, supers, fields, methods) ==
    [kind |-> kind, name |-> name, supers |-> supers, fields |-> fields,
     methods |-> methods]

HandlerFnArg_generate(arg) == [name |-> arg.name, ty |-> arg.ty]

HandlerFnInfo_generate(function) ==
    Method(function.dest_name, "&mut self",
           [i \in 1..Len(function.args) |-> HandlerFnArg_generate(function.args[i])],
           "()", <<>>)

generate_as_self(handler) ==
    Method(as_ident(handler.name), "&self", <<>>,
           "Option<&" \o handler.name \o ">", <<>>)

generate_as_self_mut(handler) ==
    Method(as_mut_ident(handler.name), "&mut self", <<>>,
           "Option<&mut " \o handler.name \o ">", <<>>)

HandlerInfo_generate(handler) ==
    Item("trait", handler.name, <<>>, <<>>,
         [i \in 1..Len(handler.fns) |-> HandlerFnInfo_generate(handler.fns[i])])

\* mutant: the add check asks the write accessor
generate_add_check_AsMut(handler) ==
    Stmt("if_is_some_push", idxs_ident(handler.name), as_mut_ident(handler.name), "", <<>>)

\* if object.as_H().is_some() { self.idxs_H.push(idx) }
generate_add_check(handler) ==
    Stmt("if_is_some_push", idxs_ident(handler.name), as_ident(handler.name), "", <<>>)

\* mutant: every dispatch method of the handler calls the handler's first function
generate_signal_impl_FirstDest(handler, items) ==
    items \o
    [i \in 1..Len(handler.fns) |->
        Method(handler.fns[i].source_name, "&mut self",
               [j \in 1..Len(handler.fns[i].args) |->
                    HandlerFnArg_generate(handler.fns[i].args[j])],
               "()",
               << Stmt("for_unwrap_call", idxs_ident(handler.name),
                       as_mut_ident(handler.name), handler.fns[1].dest_name,
                       [j \in 1..Len(handler.fns[i].args) |->
                            handler.fns[i].args[j].name]) >>)]

\* one method per function of the handler, appended to items:
\* for idx in self.idxs_H.iter() {
\*     unsafe { self.objects.get_unchecked_mut(*idx).as_H_mut().unwrap().dest(args) } }
generate_signal_impl(handler, items) ==
    items \o
    [i \in 1..Len(handler.fns) |->
        Method(handler.fns[i].source_name, "&mut self",
               [j \in 1..Len(handler.fns[i].args) |->
                    HandlerFnArg_generate(handler.fns[i].args[j])],
               "()",
               << Stmt("for_unwrap_call", idxs_ident(handler.name),
                       as_mut_ident(handler.name), handler.fns[i].dest_name,
                       [j \in 1..Len(handler.fns[i].args) |->
                            handler.fns[i].args[j].name]) >>)]

\* mutant: the write accessor is not declared
generate_object_trait_NoMut(s) ==
    Item("trait", object_name(s), s.reqs, <<>>,
         [i \in 1..Len(s.handlers) |-> generate_as_self(s.handlers[i])])

generate_object_trait(s) ==
    Item("trait", object_name(s), s.reqs, <<>>,
         Concat([i \in 1..Len(s.handlers) |->
                    << generate_as_self(s.handlers[i]),
                       generate_as_self_mut(s.handlers[i]) >>]))

generate_struct(s) ==
    Item("struct", s.name, <<>>,
         << [name |-> "objects", ty |-> "Vec<Box<" \o object_name(s) \o ">>"] >> \o
         [i \in 1..Len(s.handlers) |->
            [name |-> idxs_ident(s.handlers[i].name), ty |-> "Vec<usize>"]],
         <<>>)

\* mutant: new() initialises the objects field alone
generate_fn_new_impl_ObjectsOnly(s) ==
    Method("new", "static", <<>>, s.name,
           << Stmt("field_vec_new", "objects", "", "", <<>>) >>)

\* System { objects: Vec::new(), idxs_H: Vec::new(), ... }
generate_fn_new_impl(s) ==
    Method("new", "static", <<>>, s.name,
           << Stmt("field_vec_new", "objects", "", "", <<>>) >> \o
           [i \in 1..Len(s.handlers) |->
              Stmt("field_vec_new", idxs_ident(s.handlers[i].name), "", "", <<>>)])

\* mutant: idx is taken after the push (let idx = self.objects.len() moved down)
generate_fn_add_impl_LenAfterPush(s) ==
    Method("add", "&mut self", << [name |-> "object", ty |-> "O"] >>, "()",
           << Stmt("push_box_object", "objects", "", "", <<>>),
              Stmt("let_idx_len", "objects", "", "", <<>>),
              Stmt("let_object_last_unwrap", "objects", "", "", <<>>) >> \o
           [i \in 1..Len(s.handlers) |-> generate_add_check(s.handlers[i])])

\* let idx = self.objects.len(); self.objects.push(Box::new(object));
\* let object = self.objects.last().unwrap(); then one add check per handler
generate_fn_add_impl(s) ==
    Method("add", "&mut self", << [name |-> "object", ty |-> "O"] >>, "()",
           << Stmt("let_idx_len", "objects", "", "", <<>>),
              Stmt("push_box_object", "objects", "", "", <<>>),
              Stmt("let_object_last_unwrap", "objects", "", "", <<>>) >> \o
           [i \in 1..Len(s.handlers) |-> generate_add_check(s.handlers[i])])

generate_fn_iter_impl(s) ==
    Method("iter", "&self", <<>>,
           "std::slice::Iter<Box<" \o object_name(s) \o ">>",
           << Stmt("ret_iter", "objects", "", "", <<>>) >>)

generate_fn_iter_mut_impl(s) ==
    Method("iter_mut", "&mut self", <<>>,
           "std::slice::IterMut<Box<" \o object_name(s) \o ">>",
           << Stmt("ret_iter_mut", "objects", "", "", <<>>) >>)

RECURSIVE SignalImpls(_, _)
SignalImpls(handlers, fns) ==
    IF handlers = <<>> THEN fns
    ELSE SignalImpls(Tail(handlers), generate_signal_impl(Head(handlers), fns))

generate_impl(s) ==
    Item("impl", s.name, <<>>, <<>>,
         SignalImpls(s.handlers,
                     << generate_fn_new_impl(s), generate_fn_add_impl(s),
                        generate_fn_iter_impl(s), generate_fn_iter_mut_impl(s) >>))

\* mutant: as_H_mut answers None whatever impls lists
generate_object_impl_MutNone(s, thing, impls) ==
    Item("impl", thing, << object_name(s) >>, <<>>,
         Concat([i \in 1..Len(s.handlers) |->
            << Method(as_ident(s.handlers[i].name), "&self", <<>>,
                      "Option<&" \o s.handlers[i].name \o ">",
                      << IF s.handlers[i].name \in Range(impls)
                         THEN Stmt("ret_some_self", "", "", "", <<>>)
                         ELSE Stmt("ret_none", "", "", "", <<>>) >>),
               Method(as_mut_ident(s.handlers[i].name), "&mut self", <<>>,
                      "Option<&mut " \o s.handlers[i].name \o ">",
                      << Stmt("ret_none", "", "", "", <<>>) >>) >>]))

\* as_H / as_H_mut of `thing`: Some(self as &H) when impls names the handler, else None
generate_object_impl(s, thing, impls) ==
    Item("impl", thing, << object_name(s) >>, <<>>,
         Concat([i \in 1..Len(s.handlers) |->
            << Method(as_ident(s.handlers[i].name), "&self", <<>>,
                      "Option<&" \o s.handlers[i].name \o ">",
                      << IF s.handlers[i].name \in Range(impls)
                         THEN Stmt("ret_some_self", "", "", "", <<>>)
                         ELSE Stmt("ret_none", "", "", "", <<>>) >>),
               Method(as_mut_ident(s.handlers[i].name), "&mut self", <<>>,
                      "Option<&mut " \o s.handlers[i].name \o ">",
                      << IF s.handlers[i].name \in Range(impls)
                         THEN Stmt("ret_some_self", "", "", "", <<>>)
                         ELSE Stmt("ret_none", "", "", "", <<>>) >>) >>]))

generate_ast(s) ==
    [i \in 1..Len(s.handlers) |-> HandlerInfo_generate(s.handlers[i])] \o
    << generate_object_trait(s), generate_struct(s), generate_impl(s) >>

---------------------------------------------------------------------------
(* Schema construction and synthesis: specification SynthSpec *)

FnChoices ==
    { HandlerFnInfo_new("draw", "draw", <<>>),
      HandlerFnInfo_new("update", "tick", << HandlerFnArg_new("dt", "f32") >>),
      HandlerFnInfo_new("draw", "render", <<>>) }

RECURSIVE BuildHandler(_, _)
BuildHandler(handler, fns) ==
    IF fns = <<>> THEN handler
    ELSE BuildHandler(add_function(handler, Head(fns)), Tail(fns))

RECURSIVE TotalFns(_)
TotalFns(handlers) ==
    IF handlers = <<>> THEN 0 ELSE Len(Head(handlers).fns) + TotalFns(Tail(handlers))

NoRegistry == << >>
NoOp == [op |-> "none", method |-> "", args |-> <<>>]

RunIdle ==
    /\ self = NoRegistry
    /\ panicked = FALSE
    /\ ub = FALSE
    /\ calls = <<>>
    /\ added = <<>>
    /\ last = NoOp
    /\ manual = 0

SynthInit ==
    /\ sys = SystemInfo_new(SystemName)
    /\ phase = "build"
    /\ ast = <<>>
    /\ objimpl = <<>>
    /\ RunIdle

AddRequirement(req) ==
    /\ phase = "build"
    /\ Len(sys.reqs) < MaxReqs
    /\ sys' = add_requirement(sys, req)
    /\ UNCHANGED <<phase, ast, objimpl>>
    /\ UNCHANGED runVars

AddHandler(name, fns) ==
    /\ phase = "build"
    /\ Len(sys.handlers) < MaxHandlers
    /\ TotalFns(sys.handlers) + Len(fns) <= MaxFns
    /\ sys' = add_handler(sys, BuildHandler(HandlerInfo_new(name), fns))
    /\ UNCHANGED <<phase, ast, objimpl>>
    /\ UNCHANGED runVars

GenerateAst ==
    /\ phase = "build"
    /\ ast' = generate_ast(sys)
    /\ phase' = "generated"
    /\ UNCHANGED <<sys, objimpl>>
    /\ UNCHANGED runVars

GenerateObjectImpl(thing, impls) ==
    /\ phase = "generated"
    /\ objimpl' = << [thing |-> thing, impls |-> impls,
                      item |-> generate_object_impl(sys, thing, impls)] >>
    /\ UNCHANGED <<sys, phase, ast>>
    /\ UNCHANGED runVars

SynthNext ==
    \/ \E req \in ReqNames : AddRequirement(req)
    \/ \E name \in HandlerNames, fns \in SeqsUpTo(FnChoices, MaxFns) :
          AddHandler(name, fns)
    \/ GenerateAst
    \/ \E thing \in ThingNames, impls \in ImplChoices :
          GenerateObjectImpl(thing, impls)

SynthSpec == SynthInit /\ [][SynthNext]_vars

---------------------------------------------------------------------------
(* The synthesized registry: execution of the synthesized method bodies.   *)
(* A stored object is [id, ty, on, acc]: acc is the set of accessor names  *)
(* that answer Some at present.  An object of a type bound by              *)
(* generate_object_impl (ty = "bound") answers as that impl's bodies       *)
(* state.  A hand-written impl of the Object trait may answer from the     *)
(* object's state; two such types are modelled, each with one flag `on`    *)
(* that a caller can flip through a write-view:                            *)
(*   "Switch"  as_H is Some iff on, as_H_mut is always Some                *)
(*   "Fuse"    as_H is always Some, as_H_mut is Some iff on                *)

SystemImpl == ast[Len(ast)]
ObjectTrait == ast[Len(ast) - 2]

BuiltinCount == 4

MethodNamed(name) == CHOOSE m \in Range(SystemImpl.methods) : m.name = name

DispatchMethods ==
    { SystemImpl.methods[i] : i \in (BuiltinCount + 1)..Len(SystemImpl.methods) }

AccessorNames == { ObjectTrait.methods[i].name : i \in 1..Len(ObjectTrait.methods) }

\* the answers of a type whose Object impl is `item`
ImplAnswers(item) ==
    { item.methods[i].name : i \in
        { j \in 1..Len(item.methods) : item.methods[j].stmts[1].op = "ret_some_self" } }

ReadAccessors ==
    { ObjectTrait.methods[i].name : i \in
        { j \in 1..Len(ObjectTrait.methods) : ObjectTrait.methods[j].recv = "&self" } }

WriteAccessors == AccessorNames \ ReadAccessors

HandTypes == {"Switch", "Fuse"}

\* the answers of an object of a hand-written type whose flag is `on`
HandAnswers(ty, on) ==
    IF ty = "Switch"
    THEN WriteAccessors \cup (IF on THEN ReadAccessors ELSE {})
    ELSE ReadAccessors \cup (IF on THEN WriteAccessors ELSE {})

Ids(objs) == [i \in 1..Len(objs) |-> objs[i].id]

\* fn new() -> System { System { objects: Vec::new(), idxs_H: Vec::new() ... } }
ExecNew(method) ==
    [f \in { method.stmts[i].field : i \in 1..Len(method.stmts) } |-> <<>>]

\* one statement of add's body; env = [self, idx, object, panicked]
ExecAddStmt(stmt, env) ==
    CASE stmt.op = "let_idx_len" ->
            [env EXCEPT !.idx = Len(env.self[stmt.field])]
      [] stmt.op = "push_box_object" ->
            [env EXCEPT !.self[stmt.field] = Append(@, env.object)]
      [] stmt.op = "let_object_last_unwrap" ->
            IF env.self[stmt.field] = <<>>
            THEN [env EXCEPT !.panicked = TRUE]
            ELSE [env EXCEPT !.object = env.self[stmt.field][Len(env.self[stmt.field])]]
      [] stmt.op = "if_is_some_push" ->
            IF stmt.accessor \in env.object.acc
            THEN [env EXCEPT !.self[stmt.field] = Append(@, env.idx)]
            ELSE env
      [] OTHER -> env

\* mutant: the add checks form an else-if chain (the first handler that answers Some
\* ends them)
RECURSIVE ExecAdd_ElseIf(_, _)
ExecAdd_ElseIf(stmts, env) ==
    IF stmts = <<>> \/ env.panicked THEN env
    ELSE IF Head(stmts).op = "if_is_some_push" /\ Head(stmts).accessor \in env.object.acc
         THEN ExecAddStmt(Head(stmts), env)
         ELSE ExecAdd_ElseIf(Tail(stmts), ExecAddStmt(Head(stmts), env))

\* mutant: every add check pushes idx twice
RECURSIVE ExecAdd_PushTwice(_, _)
ExecAdd_PushTwice(stmts, env) ==
    IF stmts = <<>> \/ env.panicked THEN env
    ELSE ExecAdd_PushTwice(Tail(stmts),
            IF Head(stmts).op = "if_is_some_push"
            THEN ExecAddStmt(Head(stmts), ExecAddStmt(Head(stmts), env))
            ELSE ExecAddStmt(Head(stmts), env))

RECURSIVE ExecAdd(_, _)
ExecAdd(stmts, env) ==
    IF stmts = <<>> \/ env.panicked THEN env
    ELSE ExecAdd(Tail(stmts), ExecAddStmt(Head(stmts), env))

\* the value the body reads from variable `name`: the caller's argument of that name
ArgValue(method, argv, name) ==
    argv[CHOOSE j \in 1..Len(method.args) : method.args[j].name = name]

\* the invocation the loop body makes on object o at index idx
Call(method, stmt, o, idx, argv) ==
    [object |-> o.id, idx |-> idx, via |-> stmt.accessor, fn |-> stmt.call,
     args |-> [j \in 1..Len(stmt.args) |-> ArgValue(method, argv, stmt.args[j])]]

\* mutant: an absent write-view is skipped (if let Some(..)) instead of unwrapped
RECURSIVE ExecFor_Skip(_, _, _, _, _)
ExecFor_Skip(method, stmt, slf, argv, k) ==
    IF k > Len(slf[stmt.field]) THEN [calls |-> <<>>, panicked |-> FALSE, ub |-> FALSE]
    ELSE LET idx == slf[stmt.field][k] IN
         IF idx >= Len(slf["objects"])
         THEN [calls |-> <<>>, panicked |-> FALSE, ub |-> TRUE]
         ELSE LET o == slf["objects"][idx + 1]
                  rest == ExecFor_Skip(method, stmt, slf, argv, k + 1) IN
              IF stmt.accessor \notin o.acc
              THEN rest
              ELSE [rest EXCEPT !.calls = << Call(method, stmt, o, idx, argv) >> \o @]

\* for idx in self.idxs_H.iter() {
\*     unsafe { self.objects.get_unchecked_mut(*idx).as_H_mut().unwrap().dest(args) } }
\* out = [calls, panicked, ub]
RECURSIVE ExecFor(_, _, _, _, _)
ExecFor(method, stmt, slf, argv, k) ==
    IF k > Len(slf[stmt.field]) THEN [calls |-> <<>>, panicked |-> FALSE, ub |-> FALSE]
    ELSE LET idx == slf[stmt.field][k] IN
         IF idx >= Len(slf["objects"])
         THEN [calls |-> <<>>, panicked |-> FALSE, ub |-> TRUE]
         ELSE LET o == slf["objects"][idx + 1] IN
              IF stmt.accessor \notin o.acc
              THEN [calls |-> <<>>, panicked |-> TRUE, ub |-> FALSE]
              ELSE LET rest == ExecFor(method, stmt, slf, argv, k + 1) IN
                   [rest EXCEPT !.calls = << Call(method, stmt, o, idx, argv) >> \o @]

\* self.objects.iter() / self.objects.iter_mut(): the views, in the Vec's order
ExecIter(method, slf) == slf[method.stmts[1].field]

---------------------------------------------------------------------------
(* Registry operations: specification Spec *)

Drawable == add_function(HandlerInfo_new("Drawable"), HandlerFnInfo_new("draw", "draw", <<>>))

Updatable ==
    add_function(HandlerInfo_new("Updatable"),
                 HandlerFnInfo_new("update", "tick", << HandlerFnArg_new("dt", "f32") >>))

Painter ==
    add_function(add_function(HandlerInfo_new("Drawable"),
                              HandlerFnInfo_new("draw", "render", <<>>)),
                 HandlerFnInfo_new("resize", "resize", << HandlerFnArg_new("w", "u32") >>))

RuntimeSchemas ==
    { add_handler(add_handler(SystemInfo_new(SystemName), Drawable), Updatable),
      add_handler(SystemInfo_new(SystemName), Painter) }

Op(op, method, args) == [op |-> op, method |-> method, args |-> args]

Alive == ~panicked /\ ~ub

Init ==
    /\ sys \in RuntimeSchemas
    /\ phase = "generated"
    /\ ast = generate_ast(sys)
    /\ objimpl = <<>>
    /\ self = ExecNew(generate_fn_new_impl(sys))
    /\ panicked = FALSE
    /\ ub = FALSE
    /\ calls = <<>>
    /\ added = <<>>
    /\ last = Op("new", "new", <<>>)
    /\ manual = 0

New ==
    /\ self' = ExecNew(MethodNamed("new"))
    /\ panicked' = FALSE
    /\ ub' = FALSE
    /\ calls' = <<>>
    /\ added' = <<>>
    /\ last' = Op("new", "new", <<>>)
    /\ manual' = 0
    /\ UNCHANGED synthVars

AddObject(object) ==
    LET env == ExecAdd(MethodNamed("add").stmts,
                       [self |-> self, idx |-> 0, object |-> object,
                        panicked |-> FALSE])
    IN /\ self' = env.self
       /\ panicked' = env.panicked
       /\ added' = Append(added, object)
       /\ calls' = <<>>
       /\ last' = Op("add", "add", <<>>)
       /\ manual' = manual + (IF object.ty \in HandTypes THEN 1 ELSE 0)
       /\ UNCHANGED ub
       /\ UNCHANGED synthVars

\* add(object) with object of a type bound by generate_object_impl(thing, impls)
AddBound(thing, impls) ==
    /\ Alive
    /\ Len(added) < MaxObjects
    /\ AddObject([id |-> Len(added) + 1, ty |-> "bound", on |-> TRUE,
                  acc |-> ImplAnswers(generate_object_impl(sys, thing, impls))])

\* add(object) with object of a type with a hand-written Object impl
AddManual(ty, on) ==
    /\ Alive
    /\ Len(added) < MaxObjects
    /\ manual < MaxManual
    /\ AddObject([id |-> Len(added) + 1, ty |-> ty, on |-> on,
                  acc |-> HandAnswers(ty, on)])

Iter ==
    /\ Alive
    /\ last' = Op("iter", "iter", Ids(ExecIter(MethodNamed("iter"), self)))
    /\ calls' = <<>>
    /\ UNCHANGED <<self, panicked, ub, added, manual>>
    /\ UNCHANGED synthVars

IterMut ==
    /\ Alive
    /\ last' = Op("iter_mut", "iter_mut", <<>>)
    /\ calls' = <<>>
    /\ UNCHANGED <<self, panicked, ub, added, manual>>
    /\ UNCHANGED synthVars

\* the handler lists of the types whose boxes the caller assigns through a view
AssignChoices == { <<>>, <<"Drawable">> }

\* the caller flips, through a write-view iter_mut yielded, the flag of the
\* hand-written object at position i
Mutate(i) ==
    /\ Alive
    /\ last.op = "iter_mut"
    /\ i \in 1..Len(self["objects"])
    /\ self["objects"][i].ty \in HandTypes
    /\ self' = [self EXCEPT !["objects"][i] =
                    [@ EXCEPT !.on = ~@, !.acc = HandAnswers(self["objects"][i].ty,
                                                           ~self["objects"][i].on)]]
    /\ calls' = <<>>
    /\ UNCHANGED <<panicked, ub, added, last, manual>>
    /\ UNCHANGED synthVars

\* the caller swaps (std::mem::swap) the boxes behind the write-views of the
\* neighbouring positions i and i + 1 that iter_mut yielded: the two objects change
\* places, the caches stay
Swap(i) ==
    /\ Alive
    /\ last.op = "iter_mut"
    /\ manual < MaxManual
    /\ i \in 1..(Len(self["objects"]) - 1)
    /\ self' = [self EXCEPT !["objects"] =
                    [@ EXCEPT ![i] = self["objects"][i + 1], ![i + 1] = self["objects"][i]]]
    /\ manual' = manual + 1
    /\ calls' = <<>>
    /\ UNCHANGED <<panicked, ub, added, last>>
    /\ UNCHANGED synthVars

\* the caller assigns, through the write-view of position i that iter_mut yielded, a
\* new Box holding an object of a type bound by generate_object_impl(thing, impls);
\* the object add stored there is dropped, the caches stay
Assign(i, thing, impls) ==
    /\ Alive
    /\ last.op = "iter_mut"
    /\ manual < MaxManual
    /\ i \in 1..Len(self["objects"])
    /\ self' = [self EXCEPT !["objects"][i] =
                    [id |-> 0 - (manual + 1), ty |-> "bound", on |-> TRUE,
                     acc |-> ImplAnswers(generate_object_impl(sys, thing, impls))]]
    /\ manual' = manual + 1
    /\ calls' = <<>>
    /\ UNCHANGED <<panicked, ub, added, last>>
    /\ UNCHANGED synthVars

Dispatch(method, argv) ==
    LET out == ExecFor(method, method.stmts[1], self, argv, 1)
    IN /\ Alive
       /\ calls' = out.calls
       /\ panicked' = out.panicked
       /\ ub' = out.ub
       /\ last' = Op("dispatch", method.name, argv)
       /\ UNCHANGED <<self, added, manual>>
       /\ UNCHANGED synthVars

Next ==
    \/ New
    \/ \E thing \in ThingNames, impls \in ImplChoices :
          AddBound(thing, impls)
    \/ \E ty \in HandTypes, on \in BOOLEAN : AddManual(ty, on)
    \/ Iter
    \/ IterMut
    \/ \E i \in 1..MaxObjects : Mutate(i)
    \/ \E i \in 1..MaxObjects : Swap(i)
    \/ \E i \in 1..MaxObjects, thing \in ThingNames, impls \in AssignChoices :
          Assign(i, thing, impls)
    \/ \E method \in DispatchMethods :
          \E argv \in [1..Len(method.args) -> ArgValues] : Dispatch(method, argv)

Spec == Init /\ [][Next]_vars

---------------------------------------------------------------------------
(* Properties of the registry (specification Spec) *)

Objects == self["objects"]

\* the handler whose function the dispatch method `name` fans out to
HandlerOf(name) ==
    CHOOSE h \in Range(sys.handlers) : \E f \in Range(h.fns) : f.source_name = name

\* the index cache the last dispatch walked
LastCache == self[idxs_ident(HandlerOf(last.method).name)]

\* the object added i-th answered Some from as_H() when it was added, H the handler of
\* the last dispatch
CapableAtAdd(i) == as_ident(HandlerOf(last.method).name) \in added[i].acc

WritableNow(i) == as_mut_ident(HandlerOf(last.method).name) \in Objects[i].acc

Visited == { calls[k].object : k \in 1..Len(calls) }

\* C1: the last dispatch visited exactly the objects whose as_H() answered
\* Some when they were added.
C1_VisitedIffCapableAtAdd ==
    last.op = "dispatch" =>
        \A i \in 1..Len(added) : (added[i].id \in Visited) <=> CapableAtAdd(i)

\* C2: the invocations of one dispatch go through strictly increasing insertion
\* indices, each on the object added at that index, none on an object that did not
\* support H when added; when the dispatch completes, any two capable objects are
\* both invoked, the one added first before the other.
C2_DispatchInInsertionOrder ==
    last.op = "dispatch" =>
        /\ \A p, q \in 1..Len(calls) : p < q => calls[p].idx < calls[q].idx
        /\ \A p \in 1..Len(calls) :
              /\ calls[p].idx + 1 \in 1..Len(added)
              /\ calls[p].object = added[calls[p].idx + 1].id
              /\ CapableAtAdd(calls[p].idx + 1)
        /\ ~panicked =>
              \A a, c \in 1..Len(added) :
                 (a < c /\ CapableAtAdd(a) /\ CapableAtAdd(c)) =>
                    \E p, q \in 1..Len(calls) :
                       p < q /\ calls[p].object = added[a].id
                             /\ calls[q].object = added[c].id

\* C3: iter() yields exactly the added objects, each once, in the order of the add
\* calls.
C3_IterYieldsInsertionOrder ==
    last.op = "iter" => last.args = Ids(added)

\* the index caches of the registry
Caches == [f \in (DOMAIN self) \ {"objects"} |-> self[f]]

\* C4: a step that is an iter, iter_mut or dispatch call leaves the object sequence
\* (length and order) and every index cache as they were; only add (and the creation
\* of a registry) changes them.
C4_OnlyAddChangesRegistry ==
    [][ /\ last'.op \in {"iter", "iter_mut", "dispatch"} =>
              (Ids(self'["objects"]) = Ids(self["objects"]) /\ Caches' = Caches)
        /\ (Ids(self'["objects"]) # Ids(self["objects"]) \/ Caches' # Caches) =>
              last'.op \in {"add", "new"} ]_vars

\* the first position of the cache whose object yields no write-view (0: none)
FirstAbsent ==
    LET bad == { k \in 1..Len(LastCache) : ~WritableNow(LastCache[k] + 1) }
    IN IF bad = {} THEN 0 ELSE CHOOSE k \in bad : \A j \in bad : k <= j

\* C5: a dispatch that meets a cached object without a write-view ends in the fatal
\* failure there: the objects cached before it were invoked, it and the objects after
\* it were not; a dispatch that meets none does not fail.
C5_AbsentWriteViewIsFatal ==
    last.op = "dispatch" =>
        IF FirstAbsent = 0
        THEN ~panicked /\ Len(calls) = Len(LastCache)
        ELSE /\ panicked
             /\ [k \in 1..Len(calls) |-> calls[k].idx] = SubSeq(LastCache, 1, FirstAbsent - 1)

\* the fatal failure at the second of three cached objects
C5_Witness ==
    /\ last.op = "dispatch"
    /\ panicked
    /\ Len(LastCache) = 3
    /\ FirstAbsent = 2
    /\ Len(calls) = 1

\* C8: after new() the registry holds an empty object sequence and one empty index
\* cache per handler; a dispatch on a registry without objects invokes nothing and
\* does not fail.
C8_NewRegistryEmpty ==
    /\ last.op = "new" =>
          /\ DOMAIN self = {"objects"} \cup
                 { idxs_ident(sys.handlers[i].name) : i \in 1..Len(sys.handlers) }
          /\ \A f \in DOMAIN self : self[f] = <<>>
    /\ (last.op = "dispatch" /\ added = <<>>) =>
          (calls = <<>> /\ ~panicked /\ ~ub)

\* a dispatch of a method with an argument on a registry nothing was added to
C8_Witness ==
    /\ last.op = "dispatch"
    /\ added = <<>>
    /\ Len(last.args) = 1
    /\ Objects = <<>>

\* what a call of iter() yields in this state
IterYields == Ids(ExecIter(MethodNamed("iter"), self))

\* C9: two iter() calls with no add between them yield the same sequence: iter() can
\* be called before and after every step, so no step other than an add (or the
\* creation of a registry) changes what it yields.
C9_IterRepeatable ==
    [][ last'.op \notin {"add", "new"} => IterYields' = IterYields ]_vars

---------------------------------------------------------------------------
(* Properties of the synthesis (specification SynthSpec) *)

Distinct(seq) == \A i, j \in 1..Len(seq) : i # j => seq[i] # seq[j]

\* handler names unique in the system, source and dest names unique in each handler
UniqueNames(s) ==
    /\ Distinct([i \in 1..Len(s.handlers) |-> s.handlers[i].name])
    /\ \A i \in 1..Len(s.handlers) :
          /\ Distinct([j \in 1..Len(s.handlers[i].fns) |-> s.handlers[i].fns[j].dest_name])
          /\ Distinct([j \in 1..Len(s.handlers[i].fns) |-> s.handlers[i].fns[j].source_name])

ItemsNamed(kind, name) ==
    { i \in 1..Len(ast) : ast[i].kind = kind /\ ast[i].name = name }

MethodsNamed(item, name) ==
    { j \in 1..Len(item.methods) : item.methods[j].name = name }

\* C6: generate_ast on a SystemInfo with two handlers of one name, or a handler with
\* two functions of one name, produces no declarations.
C6_DuplicateNamesFail ==
    (phase = "generated" /\ ~UniqueNames(sys)) => ast = <<>>

\* C7: the impl generate_object_impl emits holds, for every handler of the system, an
\* as_H that answers Some exactly when impls lists H and an as_H_mut that answers
\* Some for the same handlers.
C7_BinderAnswersImpls ==
    objimpl # <<>> =>
        LET b == objimpl[1] IN
        /\ Len(b.item.methods) = 2 * Len(sys.handlers)
        /\ \A i \in 1..Len(sys.handlers) :
              LET name == sys.handlers[i].name
                  as == b.item.methods[2 * i - 1]
                  asMut == b.item.methods[2 * i]
              IN /\ as.name = as_ident(name) /\ as.recv = "&self"
                 /\ asMut.name = as_mut_ident(name) /\ asMut.recv = "&mut self"
                 /\ (as.stmts[1].op = "ret_some_self") <=> (name \in Range(b.impls))
                 /\ (asMut.stmts[1].op = "ret_some_self") <=> (as.stmts[1].op = "ret_some_self")
                 /\ {as.stmts[1].op, asMut.stmts[1].op} \subseteq {"ret_some_self", "ret_none"}

\* an impl for a system of two handlers, one listed in impls and one not, impls
\* listing a name outside the vocabulary as well
C7_Witness ==
    /\ objimpl # <<>>
    /\ UniqueNames(sys)
    /\ Len(sys.handlers) = 2
    /\ Range(objimpl[1].impls) = {sys.handlers[2].name, "Other"}

\* C10: for a SystemInfo with unique names, generate_ast returns one trait per
\* handler (its methods the handler's functions under their dest names, in order),
\* the Object trait with as_H and as_H_mut once per handler and nothing else, the
\* struct with objects and one idxs field per handler, and the impl with the four
\* built-in methods and one dispatch method per function of every handler.
C10_OneDeclarationPerSchemaEntry ==
    (phase = "generated" /\ UniqueNames(sys)) =>
        LET n == Len(sys.handlers)
            objectTrait == ast[n + 1]
            struct == ast[n + 2]
            impl == ast[n + 3]
        IN /\ Len(ast) = n + 3
           /\ \A i \in 1..n :
                 LET h == sys.handlers[i] IN
                 /\ ItemsNamed("trait", h.name) = {i}
                 /\ [j \in 1..Len(ast[i].methods) |-> ast[i].methods[j].name] =
                       [j \in 1..Len(h.fns) |-> h.fns[j].dest_name]
                 /\ \A j \in 1..Len(h.fns) : ast[i].methods[j].args = h.fns[j].args
                 /\ Cardinality(MethodsNamed(objectTrait, as_ident(h.name))) = 1
                 /\ Cardinality(MethodsNamed(objectTrait, as_mut_ident(h.name))) = 1
                 /\ Cardinality({ k \in 1..Len(struct.fields) :
                                    struct.fields[k].name = idxs_ident(h.name) }) = 1
                 /\ \A j \in 1..Len(h.fns) :
                       Cardinality({ k \in 1..Len(impl.methods) :
                            /\ impl.methods[k].name = h.fns[j].source_name
                            /\ impl.methods[k].stmts[1].op = "for_unwrap_call"
                            /\ impl.methods[k].stmts[1].field = idxs_ident(h.name)
                            /\ impl.methods[k].stmts[1].accessor = as_mut_ident(h.name)
                            /\ impl.methods[k].stmts[1].call = h.fns[j].dest_name }) = 1
           /\ objectTrait.kind = "trait" /\ objectTrait.name = object_name(sys)
           /\ Len(objectTrait.methods) = 2 * n
           /\ struct.kind = "struct" /\ struct.name = sys.name
           /\ Len(struct.fields) = n + 1
           /\ impl.kind = "impl" /\ impl.name = sys.name
           /\ Len(impl.methods) = BuiltinCount + TotalFns(sys.handlers)

\* the declarations of a system of two handlers with one function each, the source
\* name of one differing from its dest name
C10_Witness ==
    /\ phase = "generated"
    /\ UniqueNames(sys)
    /\ Len(sys.handlers) = 2
    /\ \A i \in 1..2 : Len(sys.handlers[i].fns) = 1
    /\ sys.handlers[2].fns[1].source_name # sys.handlers[2].fns[1].dest_name
    /\ Len(ast) = 5

---------------------------------------------------------------------------
(* Properties of the registry, continued (specification Spec) *)

\* C12: every handler's index cache is strictly increasing in its stored order (so
\* it holds no index twice).
C12_CachesStrictlyIncreasing ==
    \A f \in DOMAIN Caches :
        \A p, q \in 1..Len(Caches[f]) : p < q => Caches[f][p] < Caches[f][q]

\* a cache that holds the first and the third object, not the second
C12_Witness ==
    /\ last.op = "add"
    /\ \E f \in DOMAIN Caches : Caches[f] = << 0, 2 >>

\* C13: every index in any handler's cache is smaller than the length of the object
\* sequence, and no dispatch has read outside the object sequence.
C13_CachedIndicesInBounds ==
    /\ \A f \in DOMAIN Caches :
          \A p \in 1..Len(Caches[f]) : Caches[f][p] \in 0..(Len(Objects) - 1)
    /\ ~ub

\* a dispatch that looked up the last position of the object sequence
C13_Witness ==
    /\ last.op = "dispatch"
    /\ Len(Objects) = 3
    /\ Len(calls) >= 1
    /\ calls[Len(calls)].idx = Len(Objects) - 1

\* the positions of the statements of add's body with operation op
AddStmtsAt(op) ==
    { k \in 1..Len(MethodNamed("add").stmts) : MethodNamed("add").stmts[k].op = op }

\* C14: an add call on a registry of n objects stores the new object at position n,
\* leaves the objects before it as they were, and for each handler H appends n to
\* H's cache when the object's as_H() answers Some and leaves the cache as it was
\* otherwise; the body queries the accessors after the push, on the stored object.
C14_AddAppendsObjectAndIndex ==
    [][ last'.op = "add" =>
          LET n == Len(self["objects"])
              object == added'[Len(added')]
          IN /\ added' = Append(added, object)
             /\ self'["objects"] = Append(self["objects"], object)
             /\ DOMAIN self' = DOMAIN self
             /\ \A i \in 1..Len(sys.handlers) :
                   LET H == sys.handlers[i].name IN
                   self'[idxs_ident(H)] =
                       IF as_ident(H) \in object.acc
                       THEN Append(self[idxs_ident(H)], n)
                       ELSE self[idxs_ident(H)]
             /\ \A p \in AddStmtsAt("push_box_object"),
                   q \in AddStmtsAt("let_object_last_unwrap"),
                   r \in AddStmtsAt("if_is_some_push") : p < q /\ q < r
             /\ Cardinality(AddStmtsAt("if_is_some_push")) = Len(sys.handlers) ]_vars

\* the third add, of an object that supports one of two handlers: one cache got
\* index 2, the other stayed as it was
C14_Witness ==
    /\ last.op = "add"
    /\ Len(Objects) = 3
    /\ Len(sys.handlers) = 2
    /\ \E f \in DOMAIN Caches :
          /\ Len(Caches[f]) >= 2
          /\ Caches[f][Len(Caches[f])] = 2
    /\ \E f \in DOMAIN Caches : \A p \in 1..Len(Caches[f]) : Caches[f][p] # 2

\* C15: on a registry whose objects are all of types bound by generate_object_impl,
\* no dispatch ends in the fatal accessor failure: every cached object is invoked.
C15_BoundObjectsNeverFatal ==
    (last.op = "dispatch" /\ \A i \in 1..Len(Objects) : Objects[i].ty = "bound") =>
        /\ ~panicked
        /\ ~ub
        /\ [k \in 1..Len(calls) |-> calls[k].idx] = LastCache

\* the function the dispatch method `name` fans out to
FnOf(name) ==
    CHOOSE f \in Range(HandlerOf(name).fns) : f.source_name = name

\* the first n invocations of the last dispatch are dest_name(args) of its function,
\* through H's write accessor, one on each of the first n objects cached for H, in
\* the cache's order, and there are no other invocations
InvokedFirst(n) ==
    /\ Len(calls) = n
    /\ \A k \in 1..Len(calls) :
          /\ calls[k].idx = LastCache[k]
          /\ calls[k].object = Objects[LastCache[k] + 1].id
          /\ calls[k].fn = FnOf(last.method).dest_name
          /\ calls[k].via = as_mut_ident(HandlerOf(last.method).name)
          /\ calls[k].args = last.args
    /\ \A p, q \in 1..Len(calls) : p # q => calls[p].object # calls[q].object

\* C16 as stated: one call of the dispatch method for (source_name, dest_name, params)
\* of H invokes dest_name once on each object cached for H, with the caller's
\* arguments, and invokes nothing else.
C16_InvokesDestOnEveryCached ==
    last.op = "dispatch" => InvokedFirst(Len(LastCache))

\* C16 (amended): one call of the dispatch method for (source_name, dest_name, params)
\* of H that runs to completion invokes dest_name once on each object cached for H,
\* with the caller's arguments; a call that ends in the fatal accessor failure has
\* done so on the objects cached before the failing one; in both cases it invokes no
\* function of another handler and no other function of H.
C16_InvokesDestOnEveryCachedUnlessFatal ==
    last.op = "dispatch" =>
        /\ InvokedFirst(IF FirstAbsent = 0 THEN Len(LastCache) ELSE FirstAbsent - 1)
        /\ panicked <=> FirstAbsent # 0

\* update(2) on three objects of a system of two handlers invoked tick(2) on the two
\* that are cached for Updatable
C16_Witness ==
    /\ last.op = "dispatch"
    /\ last.method = "update"
    /\ last.args = << 2 >>
    /\ Len(sys.handlers) = 2
    /\ Len(Objects) = 3
    /\ ~panicked
    /\ Len(calls) = 2
    /\ calls[1].fn = "tick" /\ calls[1].args = << 2 >>

\* the SystemInfo s with its handlers in the order p (a permutation of their positions)
Permuted(s, p) ==
    [s EXCEPT !.handlers = [i \in 1..Len(s.handlers) |-> s.handlers[p[i]]]]

\* the registry the add body `stmts` builds from slf when handed objs one by one
RECURSIVE ReplayAdds(_, _, _)
ReplayAdds(stmts, slf, objs) ==
    IF objs = <<>> THEN slf
    ELSE ReplayAdds(stmts,
                    ExecAdd(stmts, [self |-> slf, idx |-> 0, object |-> Head(objs),
                                    panicked |-> FALSE]).self,
                    Tail(objs))

\* the registry synthesized from s after new() and the add calls made so far, its
\* objects in their present state
RegistryOf(s) ==
    [ReplayAdds(generate_fn_add_impl(s).stmts, ExecNew(generate_fn_new_impl(s)), added)
        EXCEPT !["objects"] = Objects]

\* the dispatch method `name` of the impl synthesized from s
DispatchMethodOf(s, name) ==
    CHOOSE m \in Range(generate_impl(s).methods) : m.name = name

\* C18: after every add call, the registry synthesized from the same SystemInfo with
\* its handlers in any other order holds, after the same add calls, the same index
\* cache for each handler; and a call of any of its dispatch methods makes the same
\* invocations in the same order and ends the same way.
C18_HandlerOrderIrrelevant ==
    last.op \in {"add", "dispatch"} =>
        \A p \in Permutations(1..Len(sys.handlers)) :
            (\E i \in 1..Len(sys.handlers) : p[i] # i) =>
            LET s2 == Permuted(sys, p)
                other == RegistryOf(s2)
            IN
            /\ \A i \in 1..Len(sys.handlers) :
                  other[idxs_ident(sys.handlers[i].name)] =
                      self[idxs_ident(sys.handlers[i].name)]
            /\ (last.op = "dispatch") =>
                  LET m2 == DispatchMethodOf(s2, last.method)
                      run == ExecFor(m2, m2.stmts[1], other, last.args, 1)
                  IN
                  /\ run.calls = calls
                  /\ run.panicked = panicked

\* a dispatch on a registry of two handlers and three objects, one of them cached for
\* both handlers, the two caches different
C18_Witness ==
    /\ last.op = "dispatch"
    /\ Len(sys.handlers) = 2
    /\ Len(Objects) = 3
    /\ Len(calls) >= 2
    /\ self[idxs_ident(sys.handlers[1].name)] # self[idxs_ident(sys.handlers[2].name)]
    /\ \E k \in 0..2 :
          /\ k \in Range(self[idxs_ident(sys.handlers[1].name)])
          /\ k \in Range(self[idxs_ident(sys.handlers[2].name)])

---------------------------------------------------------------------------
(* Properties of the synthesis, continued (specification SynthSpec) *)

\* the uniqueness the schema states: handler names unique in the system, dest names
\* unique in each handler
StatedUniqueness(s) ==
    /\ Distinct([i \in 1..Len(s.handlers) |-> s.handlers[i].name])
    /\ \A i \in 1..Len(s.handlers) :
          Distinct([j \in 1..Len(s.handlers[i].fns) |-> s.handlers[i].fns[j].dest_name])

\* C17: for a SystemInfo with unique handler names and unique dest names in each
\* handler, the methods of the synthesized impl (new, add, iter, iter_mut and the
\* dispatch methods) have pairwise distinct names.
C17_RegistryMethodNamesDistinct ==
    (phase = "generated" /\ StatedUniqueness(sys)) =>
        Distinct([k \in 1..Len(SystemImpl.methods) |-> SystemImpl.methods[k].name])

=============================================================================
